---- MODULE Spec2Model ----
(***************************************************************************)
(* littlekv: the in-memory storage engine (engine/src/memory_engine.rs)    *)
(* behind the StorageEngine contract (engine/src/engine_interface.rs).     *)
(*                                                                         *)
(* The engine is one map  table name -> (key -> value)  behind a single    *)
(* parking_lot RwLock.  Client threads hold clones of one engine handle    *)
(* and call create_table, get, get_multi and write_batch.  Every call is   *)
(* modelled as: invocation, lock acquisition, its body (one step per       *)
(* write operation of a batch), and the return that drops the guard.       *)
(***************************************************************************)
EXTENDS Integers, Sequences, FiniteSets, TLC

(***************************************************************************)
(* Bounds and input universes                                              *)
(***************************************************************************)
\* longest batch handed to write_batch
MaxBatch == 2
\* longest key list handed to get_multi
MaxMulti == 2

\* client threads, each owning a clone of the same MemoryEngine handle
Threads == {"a", "b"}
\* table names the clients use; InitTables are the ones passed to new
TableNames == {"t1", "t2"}
InitTables == <<"t1">>
\* keys are byte strings.  The clients store under KeysOf(table), read under
\* ReadKeys (<<255>> is not valid UTF-8 and is never stored) and hand
\* DeleteRange the bounds RangesOf(table).
KeysOf(table) == IF table = "t1" THEN {<<2>>, <<2, 1>>} ELSE {<<2>>}
ValuesOf(table) == IF table = "t1" THEN {<<7>>, <<8>>} ELSE {<<7>>}
RangesOf(table) ==
    IF table = "t1"
    THEN {<< <<2>>, <<3>> >>, << <<2>>, <<2, 1>> >>, << <<2, 1>>, <<3>> >>,
          << <<1>>, <<2, 1>> >>, << <<3>>, <<2>> >>, << <<2>>, <<2>> >>}
    ELSE {<< <<1>>, <<3>> >>}
Keys == UNION {KeysOf(table) : table \in TableNames}
ReadKeys == Keys \cup {<<255>>}

(***************************************************************************)
(* Byte strings                                                            *)
(***************************************************************************)
\* <[u8] as Ord>::cmp : lexicographic comparison of two byte slices
RECURSIVE SliceCmp(_, _)
SliceCmp(a, b) ==
    IF a = <<>> /\ b = <<>> THEN "Equal"
    ELSE IF a = <<>> THEN "Less"
    ELSE IF b = <<>> THEN "Greater"
    ELSE IF Head(a) < Head(b) THEN "Less"
    ELSE IF Head(a) > Head(b) THEN "Greater"
    ELSE SliceCmp(Tail(a), Tail(b))

\* a UTF-8 continuation byte
IsCont(b) == b >= 128 /\ b <= 191

\* String::from_utf8(bytes).is_ok()
RECURSIVE IsUtf8(_)
IsUtf8(s) ==
    IF s = <<>> THEN TRUE
    ELSE LET b == s[1]
             n == Len(s)
         IN  IF b < 128 THEN IsUtf8(SubSeq(s, 2, n))
             ELSE IF b >= 194 /\ b <= 223
                  THEN n >= 2 /\ IsCont(s[2]) /\ IsUtf8(SubSeq(s, 3, n))
             ELSE IF b >= 224 /\ b <= 239
                  THEN /\ n >= 3 /\ IsCont(s[2]) /\ IsCont(s[3])
                       /\ (b = 224 => s[2] >= 160)
                       /\ (b = 237 => s[2] <= 159)
                       /\ IsUtf8(SubSeq(s, 4, n))
             ELSE IF b >= 240 /\ b <= 244
                  THEN /\ n >= 4 /\ IsCont(s[2]) /\ IsCont(s[3]) /\ IsCont(s[4])
                       /\ (b = 240 => s[2] >= 144)
                       /\ (b = 244 => s[2] <= 143)
                       /\ IsUtf8(SubSeq(s, 5, n))
             ELSE FALSE

(***************************************************************************)
(* HashMap operations                                                      *)
(***************************************************************************)
EmptyMap == [x \in {} |-> <<>>]

\* HashMap::insert
MapInsert(m, k, v) == [x \in (DOMAIN m) \cup {k} |-> IF x = k THEN v ELSE m[x]]

\* HashMap::remove
MapRemove(m, k) == [x \in (DOMAIN m) \ {k} |-> m[x]]

\* faulty variant: insert in place of entry().or_insert, replacing what is there
MapEntryOverwrites(m, k, v) == MapInsert(m, k, v)

\* HashMap::entry(k).or_insert(v)
MapEntryOrInsert(m, k, v) == IF k \in DOMAIN m THEN m ELSE MapInsert(m, k, v)

\* faulty variant: the closure drops the keys of [start_key, end_key)
RangeKeepHalfOpen(k, start_key, end_key) ==
    ~(SliceCmp(k, start_key) # "Less" /\ SliceCmp(k, end_key) = "Less")

\* faulty variant: inverted bounds are put in order before the comparison
RangeKeepNormalised(k, start_key, end_key) ==
    LET lo == IF SliceCmp(start_key, end_key) = "Greater" THEN end_key ELSE start_key
        hi == IF SliceCmp(start_key, end_key) = "Greater" THEN start_key ELSE end_key
    IN  ~(SliceCmp(k, lo) = "Greater" /\ SliceCmp(k, hi) = "Less")

\* the retain closure of DeleteRange: TRUE when key k is kept
RangeKeep(k, start_key, end_key) ==
    ~(SliceCmp(k, start_key) = "Greater" /\ SliceCmp(k, end_key) = "Less")

\* HashMap::retain with the DeleteRange closure
MapRetainRange(m, start_key, end_key) ==
    [x \in {k \in DOMAIN m : RangeKeep(k, start_key, end_key)} |-> m[x]]

(***************************************************************************)
(* Write operations                                                        *)
(***************************************************************************)
Put(table, key, value) ==
    [kind |-> "Put", table |-> table, key |-> key, value |-> value, end_key |-> <<>>]
Delete(table, key) ==
    [kind |-> "Delete", table |-> table, key |-> key, value |-> <<>>, end_key |-> <<>>]
\* key is start_key
DeleteRange(table, start_key, end_key) ==
    [kind |-> "DeleteRange", table |-> table, key |-> start_key, value |-> <<>>,
     end_key |-> end_key]

OpsOn(table) ==
    {Put(table, k, v) : k \in KeysOf(table), v \in ValuesOf(table)}
    \cup {Delete(table, k) : k \in KeysOf(table)}
    \cup {DeleteRange(table, r[1], r[2]) : r \in RangesOf(table)}

WriteOperation == UNION {OpsOn(table) : table \in TableNames}

Batches == UNION {[1..n -> WriteOperation] : n \in 0..MaxBatch}
KeyLists == UNION {[1..n -> ReadKeys] : n \in 0..MaxMulti}

\* the MemoryEngine values of a program: two built by new, one by clone
Roots == {"engine", "other"}
Handles == Roots \cup {"clone"}
\* the handle each one descends from: itself for new, the cloned one for clone
Origin == [h \in Handles |-> IF h = "clone" THEN "engine" ELSE h]
\* addresses the allocator can hand out
Addrs == {1, 2}

(***************************************************************************)
(* Results                                                                 *)
(***************************************************************************)
Result(tag, table, key, val) == [tag |-> tag, table |-> table, key |-> key, val |-> val]
NoResult == Result("None", "", <<>>, <<>>)
Ok(val) == Result("Ok", "", <<>>, val)
\* faulty variant: the error does not carry the table name
TableNotFoundNoName(table) == Result("TableNotFound", "", <<>>, <<>>)
TableNotFound(table) == Result("TableNotFound", table, <<>>, <<>>)
\* the payload is String::from_utf8(key).unwrap(): the same bytes
KeyNotFound(key) == Result("KeyNotFound", "", key, <<>>)
\* unwrap() of an Err: the thread panics
Panic == Result("Panic", "", <<>>, <<>>)
\* Option<Vec<u8>>
Some(v) == <<v>>
None == <<>>

\* MemoryEngine::new
RECURSIVE NewInner(_)
NewInner(tables) ==
    IF tables = <<>> THEN EmptyMap
    ELSE MapEntryOrInsert(NewInner(SubSeq(tables, 1, Len(tables) - 1)),
                          tables[Len(tables)], EmptyMap)

\* body of get, on the map it reads
GetBodyResult(m, table, key) ==
    IF table \notin DOMAIN m THEN TableNotFound(table)
    ELSE IF key \notin DOMAIN m[table]
         THEN IF IsUtf8(key) THEN KeyNotFound(key) ELSE Panic
    ELSE Ok(Some(m[table][key]))

\* faulty variant: absent keys are skipped instead of yielding None
GetMultiBodyResultSkipsMissing(m, table, keys) ==
    IF table \notin DOMAIN m THEN TableNotFound(table)
    ELSE Ok(SelectSeq([i \in 1..Len(keys) |->
                          IF keys[i] \in DOMAIN m[table] THEN Some(m[table][keys[i]])
                          ELSE None],
                      LAMBDA o : o # None))

\* body of get_multi, on the map it reads
GetMultiBodyResult(m, table, keys) ==
    IF table \notin DOMAIN m THEN TableNotFound(table)
    ELSE Ok([i \in 1..Len(keys) |->
                IF keys[i] \in DOMAIN m[table] THEN Some(m[table][keys[i]]) ELSE None])

\* faulty variant: the operation is applied to every table of the engine
ApplyOpEveryTable(m, op) ==
    [tb \in DOMAIN m |->
        IF op.kind = "Put" THEN MapInsert(m[tb], op.key, op.value)
        ELSE IF op.kind = "Delete" THEN MapRemove(m[tb], op.key)
        ELSE MapRetainRange(m[tb], op.key, op.end_key)]

\* one arm of the match in write_batch, on a table that exists
ApplyOp(m, op) ==
    LET tbl == m[op.table]
    IN  [m EXCEPT ![op.table] =
            IF op.kind = "Put" THEN MapInsert(tbl, op.key, op.value)
            ELSE IF op.kind = "Delete" THEN MapRemove(tbl, op.key)
            ELSE MapRetainRange(tbl, op.key, op.end_key)]

(***************************************************************************)
(* State                                                                   *)
(***************************************************************************)
VARIABLES
    inner,      \* the HashMap<String, MemoryTable> inside the RwLock
    lock,       \* the RwLock: [writer : BOOLEAN, readers : Nat]
    pc,         \* where each thread is in its call
    call,       \* arguments, progress and result of each thread's call
    committed,  \* history: inner as of the last release of the write lock
    lin,        \* history: the sequential map every call takes effect on at once
    torn,       \* history: the <<table, key>> cells changed by the last returned
                \* batch when it stopped part-way, {} once another batch starts
    heap,       \* the allocations behind Arc: address -> HashMap<String, MemoryTable>
    handle,     \* the MemoryEngine values built so far: handle -> address in its Arc
    written,    \* history: per call of new, the map its writes give applied in turn
    observed    \* history: the last read through a handle, and what it should return

evars == <<heap, handle, written, observed>>
vars == <<inner, lock, pc, call, committed, lin, torn, evars>>

NoCall == [table |-> "", keys |-> <<>>, ops |-> <<>>, i |-> 0, res |-> NoResult]

Init ==
    /\ inner = NewInner(InitTables)
    /\ lock = [writer |-> FALSE, readers |-> 0]
    /\ pc = [t \in Threads |-> "idle"]
    /\ call = [t \in Threads |-> NoCall]
    /\ committed = NewInner(InitTables)
    /\ lin = NewInner(InitTables)
    /\ torn = {}
    /\ heap = <<>>
    /\ handle = <<>>
    /\ written = [o \in Roots |-> EmptyMap]
    /\ observed = [h |-> "", op |-> "", res |-> NoResult, expect |-> NoResult]

(***************************************************************************)
(* The lock                                                                *)
(***************************************************************************)
\* faulty variant: a read is granted only when nobody holds the lock
CanReadExclusive(l) == ~l.writer /\ l.readers = 0

\* faulty variant: a reader does not wait for the writer
CanReadDuringWrite(l) == TRUE
\* faulty variant: a writer waits for readers only
CanWriteIgnoringWriter(l) == l.readers = 0

\* faulty variant: a writer waits for the writer only
CanWriteIgnoringReaders(l) == ~l.writer

\* RwLock::read can take the lock
CanRead(l) == ~l.writer
\* RwLock::write can take the lock
CanWrite(l) == ~l.writer /\ l.readers = 0

ReadLocked(l) == [l EXCEPT !.readers = @ + 1]
ReadUnlocked(l) == [l EXCEPT !.readers = @ - 1]
WriteLocked(l) == [l EXCEPT !.writer = TRUE]
WriteUnlocked(l) == [l EXCEPT !.writer = FALSE]

(***************************************************************************)
(* Sequential reference: each call as one atomic function of the map       *)
(***************************************************************************)
\* write_batch as a function: the map after the batch and the result
RECURSIVE SeqWriteBatch(_, _)
SeqWriteBatch(m, ops) ==
    IF ops = <<>> THEN [m |-> m, res |-> Ok(<<>>)]
    ELSE IF Head(ops).table \notin DOMAIN m
         THEN [m |-> m, res |-> TableNotFound(Head(ops).table)]
    ELSE SeqWriteBatch(ApplyOp(m, Head(ops)), Tail(ops))

(***************************************************************************)
(* Calls                                                                   *)
(***************************************************************************)
\* a thread invokes one of the four operations and heads for the lock
Invoke(t) ==
    /\ pc[t] = "idle"
    /\ \E op \in {"create_table", "get", "get_multi", "write_batch"} :
           pc' = [pc EXCEPT ![t] = op]
    /\ UNCHANGED <<inner, lock, call, committed, lin, torn, evars>>

----
\* get: let inner = self.inner.read()
GetAcquire(t) ==
    /\ pc[t] = "get"
    /\ CanRead(lock)
    /\ lock' = ReadLocked(lock)
    /\ pc' = [pc EXCEPT ![t] = "get_locked"]
    /\ UNCHANGED <<inner, call, committed, lin, torn, evars>>

\* get: the two lookups and the result
GetBody(t) ==
    /\ pc[t] = "get_locked"
    /\ \E table \in TableNames, key \in ReadKeys :
           call' = [call EXCEPT ![t] =
                       [NoCall EXCEPT !.table = table, !.keys = <<key>>,
                                      !.res = GetBodyResult(inner, table, key)]]
    /\ pc' = [pc EXCEPT ![t] = "get_ret"]
    /\ UNCHANGED <<inner, lock, committed, lin, torn, evars>>

\* get: the read guard is dropped, on return or while the panic unwinds
GetRelease(t) ==
    /\ pc[t] = "get_ret"
    /\ lock' = ReadUnlocked(lock)
    /\ \/ /\ call[t].res.tag = "Panic"
          /\ pc' = [pc EXCEPT ![t] = "panicked"]
       \/ /\ call[t].res.tag # "Panic"
          /\ pc' = [pc EXCEPT ![t] = "idle"]
    /\ call' = [call EXCEPT ![t] = NoCall]
    /\ UNCHANGED <<inner, committed, lin, torn, evars>>

----
\* get_multi: let inner = self.inner.read()
GetMultiAcquire(t) ==
    /\ pc[t] = "get_multi"
    /\ CanRead(lock)
    /\ lock' = ReadLocked(lock)
    /\ pc' = [pc EXCEPT ![t] = "get_multi_locked"]
    /\ UNCHANGED <<inner, call, committed, lin, torn, evars>>

\* get_multi: the table lookup, the loop over keys and the result
GetMultiBody(t) ==
    /\ pc[t] = "get_multi_locked"
    /\ \E table \in TableNames, keys \in KeyLists :
           call' = [call EXCEPT ![t] =
                       [NoCall EXCEPT !.table = table, !.keys = keys,
                                      !.res = GetMultiBodyResult(inner, table, keys)]]
    /\ pc' = [pc EXCEPT ![t] = "get_multi_ret"]
    /\ UNCHANGED <<inner, lock, committed, lin, torn, evars>>

\* get_multi: the read guard is dropped on return
GetMultiRelease(t) ==
    /\ pc[t] = "get_multi_ret"
    /\ lock' = ReadUnlocked(lock)
    /\ pc' = [pc EXCEPT ![t] = "idle"]
    /\ call' = [call EXCEPT ![t] = NoCall]
    /\ UNCHANGED <<inner, committed, lin, torn, evars>>

----
\* create_table: let mut inner = self.inner.write()
CreateTableAcquire(t) ==
    /\ pc[t] = "create_table"
    /\ CanWrite(lock)
    /\ lock' = WriteLocked(lock)
    /\ \E table \in TableNames :
           /\ call' = [call EXCEPT ![t] = [NoCall EXCEPT !.table = table]]
           /\ lin' = MapEntryOrInsert(lin, table, EmptyMap)
    /\ pc' = [pc EXCEPT ![t] = "create_table_locked"]
    /\ UNCHANGED <<inner, committed, torn, evars>>

\* create_table: inner.entry(table).or_insert(HashMap::new()); Ok(())
CreateTableBody(t) ==
    /\ pc[t] = "create_table_locked"
    /\ inner' = MapEntryOrInsert(inner, call[t].table, EmptyMap)
    /\ call' = [call EXCEPT ![t].res = Ok(<<>>)]
    /\ pc' = [pc EXCEPT ![t] = "create_table_ret"]
    /\ UNCHANGED <<lock, committed, lin, torn, evars>>

\* create_table: the write guard is dropped on return
CreateTableRelease(t) ==
    /\ pc[t] = "create_table_ret"
    /\ lock' = WriteUnlocked(lock)
    /\ committed' = inner
    /\ pc' = [pc EXCEPT ![t] = "idle"]
    /\ call' = [call EXCEPT ![t] = NoCall]
    /\ UNCHANGED <<inner, lin, torn, evars>>

----
\* faulty variant: the batch is walked from its end
NextOpReversed(ops, i) == ops[Len(ops) - i]

\* the for loop: the operation taken after i operations were applied
NextOp(ops, i) == ops[i + 1]

\* Option<&Vec<u8>> under table and key, None also when the table is missing
Cell(m, table, key) ==
    IF table \in DOMAIN m /\ key \in DOMAIN m[table] THEN Some(m[table][key]) ELSE None

\* the cells in which maps m1 and m2 differ
Changed(m1, m2) ==
    {c \in TableNames \X Keys : Cell(m1, c[1], c[2]) # Cell(m2, c[1], c[2])}

\* pc after i operations of the batch are applied: the for loop goes on or ends in Ok(())
AfterOp(ops, i) == IF i = Len(ops) THEN "write_batch_ret" ELSE "write_batch_locked"
ResAfterOp(ops, i) == IF i = Len(ops) THEN Ok(<<>>) ELSE NoResult

\* write_batch: let mut inner = self.inner.write()
WriteBatchAcquire(t) ==
    /\ pc[t] = "write_batch"
    /\ CanWrite(lock)
    /\ lock' = WriteLocked(lock)
    /\ \E ops \in Batches :
           /\ call' = [call EXCEPT ![t] =
                          [NoCall EXCEPT !.ops = ops, !.res = ResAfterOp(ops, 0)]]
           /\ pc' = [pc EXCEPT ![t] = AfterOp(ops, 0)]
           /\ lin' = SeqWriteBatch(lin, ops).m
    /\ torn' = {}
    /\ UNCHANGED <<inner, committed, evars>>

\* faulty variant: a missing table undoes the operations already applied
WriteBatchStepRollsBack(t) ==
    /\ pc[t] = "write_batch_locked"
    /\ LET op == NextOp(call[t].ops, call[t].i)
       IN  IF op.table \notin DOMAIN inner
           THEN /\ call' = [call EXCEPT ![t].res = TableNotFound(op.table)]
                /\ pc' = [pc EXCEPT ![t] = "write_batch_ret"]
                /\ inner' = committed
           ELSE /\ inner' = ApplyOp(inner, op)
                /\ call' = [call EXCEPT ![t].i = @ + 1,
                                        ![t].res = ResAfterOp(call[t].ops, call[t].i + 1)]
                /\ pc' = [pc EXCEPT ![t] = AfterOp(call[t].ops, call[t].i + 1)]
    /\ UNCHANGED <<lock, committed, lin, torn, evars>>

\* faulty variant: a missing table is created by the write
WriteBatchStepCreatesTable(t) ==
    /\ pc[t] = "write_batch_locked"
    /\ LET op == NextOp(call[t].ops, call[t].i)
           m == MapEntryOrInsert(inner, op.table, EmptyMap)
       IN  /\ inner' = ApplyOp(m, op)
           /\ call' = [call EXCEPT ![t].i = @ + 1,
                                   ![t].res = ResAfterOp(call[t].ops, call[t].i + 1)]
           /\ pc' = [pc EXCEPT ![t] = AfterOp(call[t].ops, call[t].i + 1)]
    /\ UNCHANGED <<lock, committed, lin, torn, evars>>

\* faulty variant: a Delete of an absent key fails the way get does
WriteBatchStepDeleteFails(t) ==
    /\ pc[t] = "write_batch_locked"
    /\ LET op == NextOp(call[t].ops, call[t].i)
       IN  IF op.table \notin DOMAIN inner
           THEN /\ call' = [call EXCEPT ![t].res = TableNotFound(op.table)]
                /\ pc' = [pc EXCEPT ![t] = "write_batch_ret"]
                /\ UNCHANGED inner
           ELSE IF op.kind = "Delete" /\ op.key \notin DOMAIN inner[op.table]
           THEN /\ call' = [call EXCEPT ![t].res = KeyNotFound(op.key)]
                /\ pc' = [pc EXCEPT ![t] = "write_batch_ret"]
                /\ UNCHANGED inner
           ELSE /\ inner' = ApplyOp(inner, op)
                /\ call' = [call EXCEPT ![t].i = @ + 1,
                                        ![t].res = ResAfterOp(call[t].ops, call[t].i + 1)]
                /\ pc' = [pc EXCEPT ![t] = AfterOp(call[t].ops, call[t].i + 1)]
    /\ UNCHANGED <<lock, committed, lin, torn, evars>>

\* write_batch: one turn of the for loop, on operation i + 1
WriteBatchStep(t) ==
    /\ pc[t] = "write_batch_locked"
    /\ LET op == NextOp(call[t].ops, call[t].i)
       IN  IF op.table \notin DOMAIN inner
           THEN \* ok_or_else(..)? returns the error; nothing is undone
                /\ call' = [call EXCEPT ![t].res = TableNotFound(op.table)]
                /\ pc' = [pc EXCEPT ![t] = "write_batch_ret"]
                /\ UNCHANGED inner
           ELSE /\ inner' = ApplyOp(inner, op)
                /\ call' = [call EXCEPT ![t].i = @ + 1,
                                        ![t].res = ResAfterOp(call[t].ops, call[t].i + 1)]
                /\ pc' = [pc EXCEPT ![t] = AfterOp(call[t].ops, call[t].i + 1)]
    /\ UNCHANGED <<lock, committed, lin, torn, evars>>

\* write_batch: the write guard is dropped on return
WriteBatchRelease(t) ==
    /\ pc[t] = "write_batch_ret"
    /\ lock' = WriteUnlocked(lock)
    /\ committed' = inner
    /\ torn' = IF 0 < call[t].i /\ call[t].i < Len(call[t].ops)
               THEN Changed(committed, inner) ELSE {}
    /\ pc' = [pc EXCEPT ![t] = "idle"]
    /\ call' = [call EXCEPT ![t] = NoCall]
    /\ UNCHANGED <<inner, lin, evars>>

----
Next ==
    \E t \in Threads :
        \/ Invoke(t)
        \/ GetAcquire(t)
        \/ GetBody(t)
        \/ GetRelease(t)
        \/ GetMultiAcquire(t)
        \/ GetMultiBody(t)
        \/ GetMultiRelease(t)
        \/ CreateTableAcquire(t)
        \/ CreateTableBody(t)
        \/ CreateTableRelease(t)
        \/ WriteBatchAcquire(t)
        \/ WriteBatchStep(t)
        \/ WriteBatchRelease(t)

Spec == Init /\ [][Next]_vars

(***************************************************************************)
(* Handles: new and clone                                                  *)
(***************************************************************************)
\* faulty variant: every new hands out the same allocation
NewArcSingleton(used) == CHOOSE a \in Addrs : \A b \in Addrs : a <= b

\* Arc::new: an allocation that no live Arc points to
NewArc(used) == CHOOSE a \in Addrs \ used : \A b \in Addrs \ used : a <= b

\* Arc::clone, which derive(Clone) calls on the field inner: the same allocation
CloneArc(a) == a

\* let h = MemoryEngine::new(InitTables)
EngineNew(h) ==
    /\ h \in Roots
    /\ h \notin DOMAIN handle
    /\ LET a == NewArc(DOMAIN heap)
       IN  /\ heap' = (a :> NewInner(InitTables)) @@ heap
           /\ handle' = (h :> a) @@ handle
    /\ written' = [written EXCEPT ![h] = NewInner(InitTables)]
    /\ UNCHANGED <<inner, lock, pc, call, committed, lin, torn, observed>>

\* let h = g.clone()
EngineClone(h, g) ==
    /\ h \notin Roots
    /\ h \notin DOMAIN handle
    /\ g = Origin[h]
    /\ g \in DOMAIN handle
    /\ handle' = (h :> CloneArc(handle[g])) @@ handle
    /\ UNCHANGED <<inner, lock, pc, call, committed, lin, torn, heap, written, observed>>

\* h.create_table(table), from the call to its return
EngineCreateTable(h, table) ==
    /\ h \in DOMAIN handle
    /\ heap' = [heap EXCEPT ![handle[h]] = MapEntryOrInsert(@, table, EmptyMap)]
    /\ written' = [written EXCEPT ![Origin[h]] = MapEntryOrInsert(@, table, EmptyMap)]
    /\ UNCHANGED <<inner, lock, pc, call, committed, lin, torn, handle, observed>>

\* h.write_batch(ops), from the call to its return
EngineWriteBatch(h, ops) ==
    /\ h \in DOMAIN handle
    /\ heap' = [heap EXCEPT ![handle[h]] = SeqWriteBatch(@, ops).m]
    /\ written' = [written EXCEPT ![Origin[h]] = SeqWriteBatch(@, ops).m]
    /\ UNCHANGED <<inner, lock, pc, call, committed, lin, torn, handle, observed>>

\* h.get(table, key), from the call to its return
EngineGet(h, table, key) ==
    /\ h \in DOMAIN handle
    /\ observed' = [h |-> h, op |-> "get",
                    res |-> GetBodyResult(heap[handle[h]], table, key),
                    expect |-> GetBodyResult(written[Origin[h]], table, key)]
    /\ UNCHANGED <<inner, lock, pc, call, committed, lin, torn, heap, handle, written>>

\* h.get_multi(table, keys), from the call to its return
EngineGetMulti(h, table, keys) ==
    /\ h \in DOMAIN handle
    /\ observed' = [h |-> h, op |-> "get_multi",
                    res |-> GetMultiBodyResult(heap[handle[h]], table, keys),
                    expect |-> GetMultiBodyResult(written[Origin[h]], table, keys)]
    /\ UNCHANGED <<inner, lock, pc, call, committed, lin, torn, heap, handle, written>>

NextEngines ==
    \E h \in Handles :
        \/ EngineNew(h)
        \/ \E g \in Roots : EngineClone(h, g)
        \/ \E table \in TableNames : EngineCreateTable(h, table)
        \/ \E op \in WriteOperation : EngineWriteBatch(h, <<op>>)
        \/ \E table \in TableNames, key \in ReadKeys : EngineGet(h, table, key)
        \/ \E table \in TableNames, key \in Keys : EngineGetMulti(h, table, <<key>>)

SpecEngines == Init /\ [][NextEngines]_vars

(***************************************************************************)
(* Properties                                                              *)
(***************************************************************************)
\* thread t holds the write lock inside write_batch
InBatch(t) == pc[t] \in {"write_batch_locked", "write_batch_ret"}

\* k lies in the half-open range [start_key, end_key)
InHalfOpen(k, start_key, end_key) ==
    SliceCmp(k, start_key) # "Less" /\ SliceCmp(k, end_key) = "Less"

\* index of the first operation of ops whose table m does not hold, 0 if none
FirstMissing(m, ops) ==
    LET J == {j \in 1..Len(ops) : ops[j].table \notin DOMAIN m}
    IN  IF J = {} THEN 0 ELSE CHOOSE j \in J : \A x \in J : j <= x

\* C1: a DeleteRange applied by write_batch removes exactly the keys k with
\* start_key <= k < end_key: a key equal to start_key goes, a key equal to
\* end_key stays, every key outside the range keeps its value.
C1_DeleteRangeHalfOpen ==
    \A t \in Threads :
        (InBatch(t) /\ call[t].i = 1 /\ call[t].ops[1].kind = "DeleteRange") =>
            LET op == call[t].ops[1]
                before == committed[op.table]
                after == inner[op.table]
            IN  /\ DOMAIN after \subseteq DOMAIN before
                /\ \A k \in DOMAIN before :
                       IF InHalfOpen(k, op.key, op.end_key)
                       THEN k \notin DOMAIN after
                       ELSE k \in DOMAIN after /\ after[k] = before[k]

\* C2 as claimed: no get or get_multi returns a cell that the last returned
\* batch changed while applying only a strict non-empty prefix of itself.
C2_NoPrefixObserved ==
    \A t \in Threads :
        pc[t] \in {"get_ret", "get_multi_ret"} =>
            \A i \in 1..Len(call[t].keys) : <<call[t].table, call[t].keys[i]>> \notin torn

\* C2 as amended: no reader sees a batch in the middle of being applied.  Every
\* get and get_multi result is the one the state left by the last completed
\* write gives; a batch that returns Ok has applied all of its operations, and
\* one that returns TableNotFound has applied exactly those before the failing
\* one, which readers then see.
C2_ReadersSeeCommitted ==
    \A t \in Threads :
        /\ pc[t] = "get_ret" =>
               call[t].res = GetBodyResult(committed, call[t].table, call[t].keys[1])
        /\ pc[t] = "get_multi_ret" =>
               call[t].res = GetMultiBodyResult(committed, call[t].table, call[t].keys)
        /\ pc[t] \in {"get_ret", "get_multi_ret"} =>
               \A u \in Threads : ~InBatch(u)
        /\ pc[t] = "write_batch_ret" =>
               /\ call[t].res.tag = "Ok" => call[t].i = Len(call[t].ops)
               /\ call[t].res.tag = "TableNotFound" => call[t].i < Len(call[t].ops)

\* a get has read a value that a batch which stopped part-way left behind
C2_Witness ==
    \E t \in Threads :
        /\ pc[t] = "get_ret"
        /\ call[t].res.tag = "Ok"
        /\ <<call[t].table, call[t].keys[1]>> \in torn

\* C3: no operation panics, whatever the table name and the key bytes: get,
\* get_multi, create_table and write_batch all return an Ok or an Err.
C3_NoPanic ==
    \A t \in Threads : pc[t] # "panicked" /\ call[t].res.tag # "Panic"

\* C4: get on an existing table that does not hold the key fails with
\* KeyNotFound, and a successful get returns Some(value), never Ok(None).
C4_AbsentKeyIsKeyNotFound ==
    \A t \in Threads :
        pc[t] = "get_ret" =>
            LET table == call[t].table
                key == call[t].keys[1]
            IN  /\ (table \in DOMAIN inner /\ key \notin DOMAIN inner[table]) =>
                       call[t].res.tag = "KeyNotFound"
                /\ call[t].res.tag = "Ok" => call[t].res.val # None

\* C5 as claimed: every operation on a table that is not there returns
\* TableNotFound and leaves the engine state as it was, a write_batch that
\* merely contains an operation on that table included.
C5_UnknownTableChangesNothing ==
    \A t \in Threads :
        /\ (pc[t] \in {"get_ret", "get_multi_ret"} /\ call[t].table \notin DOMAIN inner) =>
               /\ call[t].res.tag = "TableNotFound"
               /\ inner = committed
        /\ (pc[t] = "write_batch_ret" /\ FirstMissing(committed, call[t].ops) # 0) =>
               /\ call[t].res.tag = "TableNotFound"
               /\ inner = committed

\* C5 as amended: every operation on a table that is not there returns
\* TableNotFound and does not create the table.  get and get_multi change
\* nothing; a write_batch applies no operation at or after its first operation
\* on such a table, and changes nothing when that operation is its first.
\* Operations before it stay applied.
C5_UnknownTableFails ==
    \A t \in Threads :
        /\ (pc[t] \in {"get_ret", "get_multi_ret"} /\ call[t].table \notin DOMAIN inner) =>
               /\ call[t].res.tag = "TableNotFound"
               /\ call[t].res.val = <<>>
               /\ inner = committed
        /\ (pc[t] = "write_batch_ret" /\ FirstMissing(committed, call[t].ops) # 0) =>
               LET j == FirstMissing(committed, call[t].ops)
               IN  /\ call[t].res.tag = "TableNotFound"
                   /\ call[t].i = j - 1
                   /\ DOMAIN inner = DOMAIN committed
                   /\ j = 1 => inner = committed

\* a batch whose first operation is a DeleteRange on a missing table has returned
C5_Witness ==
    \E t \in Threads :
        /\ pc[t] = "write_batch_ret"
        /\ Len(call[t].ops) = 2
        /\ call[t].ops[1].kind = "DeleteRange"
        /\ call[t].ops[1].table \notin DOMAIN inner
        /\ call[t].res.tag = "TableNotFound"

\* C6: when write_batch fails on its i-th operation because the table is
\* missing, operations 1..i-1 stay applied, operations i..n are not applied,
\* the call returns TableNotFound, and the state is the one reached by
\* applying exactly the first i-1 operations in order.
C6_NoRollback ==
    \A t \in Threads :
        (pc[t] = "write_batch_ret" /\ call[t].res.tag = "TableNotFound") =>
            LET ops == call[t].ops
                n == call[t].i
                done == SeqWriteBatch(committed, SubSeq(ops, 1, n))
            IN  /\ n < Len(ops)
                /\ ops[n + 1].table \notin DOMAIN inner
                /\ \A j \in 1..n : ops[j].table \in DOMAIN committed
                /\ done.res.tag = "Ok"
                /\ inner = done.m

\* a batch failed on its second operation after its first changed the table
C6_Witness ==
    \E t \in Threads :
        /\ pc[t] = "write_batch_ret"
        /\ call[t].res.tag = "TableNotFound"
        /\ call[t].i = 1
        /\ inner # committed

\* the operations of ops that decide cell <<table, key>>
Deciding(ops, table, key) ==
    {j \in 1..Len(ops) :
        /\ ops[j].table = table
        /\ \/ ops[j].kind \in {"Put", "Delete"} /\ ops[j].key = key
           \/ ops[j].kind = "DeleteRange" /\ ~RangeKeep(key, ops[j].key, ops[j].end_key)}

\* C7: write_batch applies its operations in list order.  After a batch that
\* returned Ok the state is the one reached by applying the operations one at
\* a time in that order, so each cell is decided by the last operation on it:
\* [Put(k,v1), Put(k,v2)] leaves k -> v2, [Put(k,v), Delete(k)] leaves k absent.
C7_ListOrder ==
    \A t \in Threads :
        (pc[t] = "write_batch_ret" /\ call[t].res.tag = "Ok") =>
            LET ops == call[t].ops
            IN  /\ inner = SeqWriteBatch(committed, ops).m
                /\ \A table \in DOMAIN inner, key \in Keys :
                       LET D == Deciding(ops, table, key)
                           last == CHOOSE j \in D : \A x \in D : x <= j
                       IN  Cell(inner, table, key) =
                               IF D = {} THEN Cell(committed, table, key)
                               ELSE IF ops[last].kind = "Put" THEN Some(ops[last].value)
                               ELSE None

\* a batch that puts one key twice, with two values, has returned Ok
C7_Witness ==
    \E t \in Threads :
        /\ pc[t] = "write_batch_ret"
        /\ call[t].res.tag = "Ok"
        /\ Len(call[t].ops) = 2
        /\ call[t].ops[1].kind = "Put" /\ call[t].ops[2].kind = "Put"
        /\ call[t].ops[1].table = call[t].ops[2].table
        /\ call[t].ops[1].key = call[t].ops[2].key
        /\ call[t].ops[1].value # call[t].ops[2].value
        /\ Cell(committed, call[t].ops[1].table, call[t].ops[1].key) = Some(call[t].ops[1].value)

\* C8: every completed call behaves as if it took effect at one instant between
\* its invocation and its return.  lin is the sequential map of maps on which
\* each write takes effect at once when it gets the lock: outside a write the
\* engine holds lin, every get and get_multi returns what lin gives, and every
\* write returns what the sequential write returns.
C8_Linearizable ==
    /\ ~lock.writer => inner = lin
    /\ \A t \in Threads :
           /\ (pc[t] = "get_ret" /\ call[t].res.tag # "Panic") =>
                  call[t].res = GetBodyResult(lin, call[t].table, call[t].keys[1])
           /\ pc[t] = "get_multi_ret" =>
                  call[t].res = GetMultiBodyResult(lin, call[t].table, call[t].keys)
           /\ pc[t] = "write_batch_ret" =>
                  /\ inner = lin
                  /\ call[t].res = SeqWriteBatch(committed, call[t].ops).res
           /\ pc[t] = "create_table_ret" =>
                  /\ inner = lin
                  /\ call[t].res = Ok(<<>>)

\* a get returns a stored value while the other thread waits to write
C8_Witness ==
    \E t \in Threads, u \in Threads :
        /\ pc[t] = "get_ret"
        /\ call[t].res.tag = "Ok"
        /\ pc[u] = "write_batch"

C10_CreateTableIdempotent ==
    \A t \in Threads :
        (pc[t] = "create_table_ret" /\ call[t].table \in DOMAIN committed) =>
            /\ call[t].res.tag = "Ok"
            /\ inner = committed

\* create_table returned for a table that holds a record
C10_Witness ==
    \E t \in Threads :
        /\ pc[t] = "create_table_ret"
        /\ call[t].table \in DOMAIN committed
        /\ committed[call[t].table] # EmptyMap

\* threads inside the critical section of a write, and of a read
Writing == {t \in Threads : pc[t] \in {"create_table_locked", "create_table_ret",
                                        "write_batch_locked", "write_batch_ret"}}
Reading == {t \in Threads : pc[t] \in {"get_locked", "get_ret",
                                        "get_multi_locked", "get_multi_ret"}}

\* C11: no two writes (create_table or write_batch, on any tables) are in
\* their critical section at once, and no get or get_multi is in its own while
\* a write is: at most one writer holds the lock, and then no reader does.
C11_WritersExclusive ==
    /\ Cardinality(Writing) <= 1
    /\ Writing # {} => Reading = {}
    /\ lock.writer <=> Writing # {}
    /\ lock.readers = Cardinality(Reading)

\* a write_batch is being applied while the other thread waits to create a table
C11_Witness ==
    \E t \in Threads, u \in Threads :
        /\ pc[t] = "write_batch_locked"
        /\ call[t].i = 1
        /\ pc[u] = "create_table"

\* the tables that the first i operations of ops name
Targets(ops, i) == {ops[j].table : j \in 1..i}

\* C12: a Put, Delete or DeleteRange on table T1 leaves every other table T2
\* as it was: while a batch runs, each table none of its applied operations
\* names still holds what it held when the batch began.
C12_TableIsolation ==
    \A t \in Threads :
        InBatch(t) =>
            /\ DOMAIN inner = DOMAIN committed
            /\ \A tb \in DOMAIN inner \ Targets(call[t].ops, call[t].i) :
                   inner[tb] = committed[tb]

\* one operation changed t1 while t2 holds a record
C12_Witness ==
    \E t \in Threads :
        /\ InBatch(t)
        /\ call[t].i = 1
        /\ call[t].ops[1].table = "t1"
        /\ inner["t1"] # committed["t1"]
        /\ "t2" \in DOMAIN inner
        /\ inner["t2"] # EmptyMap

\* C13: the set of tables changes only through new and create_table.  No step
\* removes a table, and a step that adds one is the body of create_table:
\* write_batch, get and get_multi never create a table.
C13_TablesOnlyGrow ==
    [][/\ DOMAIN inner \subseteq DOMAIN inner'
       /\ DOMAIN inner' # DOMAIN inner =>
              \E t \in Threads : /\ pc[t] = "create_table_locked"
                                 /\ pc'[t] = "create_table_ret"
                                 /\ DOMAIN inner' = DOMAIN inner \cup {call[t].table}]_vars

\* create_table has just added a table to an engine that holds a record
C13_Witness ==
    \E t \in Threads :
        /\ pc[t] = "create_table_ret"
        /\ call[t].table \notin DOMAIN committed
        /\ call[t].table \in DOMAIN inner
        /\ committed["t1"] # EmptyMap

\* map m without key k, described cell by cell
Without(m, after, table, k) ==
    /\ DOMAIN after = DOMAIN m
    /\ \A tb \in DOMAIN m \ {table} : after[tb] = m[tb]
    /\ DOMAIN after[table] = DOMAIN m[table] \ {k}
    /\ \A x \in DOMAIN after[table] : after[table][x] = m[table][x]

\* C14: a Delete of a key that an existing table does not hold succeeds and
\* leaves the table as it was, and the same Delete applied twice gives the
\* state that applying it once gives.
C14_DeleteIdempotent ==
    \A t \in Threads :
        /\ (pc[t] = "write_batch_ret" /\ Len(call[t].ops) = 1
            /\ call[t].ops[1].kind = "Delete"
            /\ call[t].ops[1].table \in DOMAIN committed
            /\ call[t].ops[1].key \notin DOMAIN committed[call[t].ops[1].table]) =>
               /\ call[t].res.tag = "Ok"
               /\ inner = committed
        /\ (pc[t] = "write_batch_ret" /\ Len(call[t].ops) = 2
            /\ call[t].ops[1].kind = "Delete"
            /\ call[t].ops[2] = call[t].ops[1]
            /\ call[t].ops[1].table \in DOMAIN committed) =>
               /\ call[t].res.tag = "Ok"
               /\ Without(committed, inner, call[t].ops[1].table, call[t].ops[1].key)

\* a Delete of an absent key returned, on a table that holds another key
C14_Witness ==
    \E t \in Threads :
        /\ pc[t] = "write_batch_ret"
        /\ Len(call[t].ops) = 1
        /\ call[t].ops[1].kind = "Delete"
        /\ call[t].ops[1].table \in DOMAIN committed
        /\ call[t].ops[1].key \notin DOMAIN committed[call[t].ops[1].table]
        /\ committed[call[t].ops[1].table] # EmptyMap

\* k lies strictly between start_key and end_key
InOpen(k, start_key, end_key) ==
    SliceCmp(k, start_key) = "Greater" /\ SliceCmp(k, end_key) = "Less"

C20_InvertedRangeNoOp ==
    \A t \in Threads :
        (InBatch(t) /\ call[t].i = 1 /\ call[t].ops[1].kind = "DeleteRange"
         /\ SliceCmp(call[t].ops[1].key, call[t].ops[1].end_key) # "Less") =>
            /\ inner = committed
            /\ (pc[t] = "write_batch_ret" /\ Len(call[t].ops) = 1) => call[t].res.tag = "Ok"

\* a DeleteRange with start_key > end_key returned on a table holding a key between them
C20_Witness ==
    \E t \in Threads :
        /\ pc[t] = "write_batch_ret"
        /\ Len(call[t].ops) = 1
        /\ call[t].ops[1].kind = "DeleteRange"
        /\ SliceCmp(call[t].ops[1].key, call[t].ops[1].end_key) = "Greater"
        /\ \E k \in DOMAIN inner[call[t].ops[1].table] :
               InOpen(k, call[t].ops[1].end_key, call[t].ops[1].key)

\* threads that have called create_table or write_batch and wait for the lock
WaitingToWrite == {t \in Threads : pc[t] \in {"create_table", "write_batch"}}

\* C17: readers do not block each other: while no writer holds the lock or
\* waits for it, a get or get_multi that asks for the shared lock is granted
\* it, however many readers already hold it.
C17_ReadersShare ==
    \A t \in Threads :
        (Writing = {} /\ WaitingToWrite = {}) =>
            /\ pc[t] = "get" => ENABLED GetAcquire(t)
            /\ pc[t] = "get_multi" => ENABLED GetMultiAcquire(t)

\* two readers are inside their critical sections on a populated table
C17_Witness ==
    /\ Cardinality(Reading) >= 2
    /\ lock.readers >= 2
    /\ inner["t1"] # EmptyMap

\* C19: every invoked call returns to its caller: a call that leaves its
\* critical section has released the lock and its thread is ready for the
\* next call.
C19_CallsReturn ==
    [][\A t \in Threads :
           (pc[t] \in {"get_ret", "get_multi_ret", "create_table_ret", "write_batch_ret"}
            /\ pc'[t] # pc[t]) => pc'[t] = "idle"]_vars

\* C15: a clone shares the state of the handle it was cloned from, and engines
\* built by separate calls to new are independent: what any handle holds, and
\* what a read through it returns, is the outcome of exactly the writes made
\* through the handles descending from the same call of new.
C15_ClonesShareEnginesIndependent ==
    /\ \A h \in DOMAIN handle : heap[handle[h]] = written[Origin[h]]
    /\ \A h \in DOMAIN handle, g \in DOMAIN handle :
           handle[h] = handle[g] <=> Origin[h] = Origin[g]
    /\ observed.res = observed.expect

\* a read through the clone returned a value that only the original handle
\* wrote, while the engine built by the other new holds something else
C15_Witness ==
    /\ DOMAIN handle = Handles
    /\ observed.h = "clone"
    /\ observed.op = "get"
    /\ observed.res.tag = "Ok"
    /\ observed.res.val = Some(<<8>>)
    /\ heap[handle["other"]] # heap[handle["engine"]]
    /\ heap[handle["other"]]["t1"] # EmptyMap

====
